---- MODULE Spec2Model ----
(***************************************************************************)
(* Cursor (keyset) pagination of KazooHR/typeorm-pagination:                *)
(* CursorPaginator, Page and Edge of pagination.ts, over a small table.    *)
(*                                                                         *)
(* Text (column names, cursors, JSON) is a sequence of one-character       *)
(* strings, so that replace/split/stringify/parse are computed character   *)
(* by character as the code does.                                          *)
(***************************************************************************)
EXTENDS Integers, Sequences, FiniteSets, TLC

(***************************************************************************)
(* Bounds of the model.                                                    *)
(***************************************************************************)
MaxRows == 3        \* ids of the table are 1..MaxRows
MaxPageSize == 2    \* first / last range over 1..MaxPageSize
MaxChanges == 2     \* inserts and deletes during one iteration
MaxCalls == 2       \* page() calls in progress at the same time
MaxCounts == 1      \* totalCount() invocations on one page
MaxIdentifier == 4  \* characters of a column identifier handed to escapeColumn

(***************************************************************************)
(* Scalars of a raw row: number, string, Date, and JS null / undefined.    *)
(***************************************************************************)
Num(n) == [k |-> "num", n |-> n, s |-> <<>>]
Str(s) == [k |-> "str", n |-> 0, s |-> s]
Date(iso) == [k |-> "date", n |-> 0, s |-> iso]
Bool(b) == [k |-> "bool", n |-> IF b THEN 1 ELSE 0, s |-> <<>>]
Null == [k |-> "null", n |-> 0, s |-> <<>>]
Undefined == [k |-> "undefined", n |-> 0, s |-> <<>>]

\* JavaScript truthiness of a scalar: 0, "", false, null and undefined are
\* falsy; a Date object is always truthy.
Truthy(v) ==
    CASE v.k = "num" -> v.n # 0
      [] v.k = "str" -> v.s # <<>>
      [] v.k = "date" -> TRUE
      [] v.k = "bool" -> v.n # 0
      [] OTHER -> FALSE

\* Mutant of OrElse: a ?? b, only null and undefined give way.
OrElseNullish(a, b) == IF a.k \in {"null", "undefined"} THEN b ELSE a

\* a || b
OrElse(a, b) == IF Truthy(a) THEN a ELSE b

(***************************************************************************)
(* Text helpers.                                                           *)
(***************************************************************************)
Digits == <<"0", "1", "2", "3", "4", "5", "6", "7", "8", "9">>

IsDigit(c) == \E i \in 1..10 : Digits[i] = c

DigitValue(c) == (CHOOSE i \in 1..10 : Digits[i] = c) - 1

\* The characters of the model, in code-unit order (for string comparison).
Alphabet == <<"\"", ",", "-", ".">> \o Digits \o
            <<"[", "\\", "]", "_", "a", "b", "d", "e", "f", "i", "l", "n",
              "o", "r", "t", "u", "|">>

CharCode(c) == IF \E i \in 1..Len(Alphabet) : Alphabet[i] = c
               THEN CHOOSE i \in 1..Len(Alphabet) : Alphabet[i] = c
               ELSE 0

\* Index of the first occurrence of character c in text t, 0 when absent.
IndexOf(t, c) ==
    IF \E i \in 1..Len(t) : t[i] = c
    THEN CHOOSE i \in 1..Len(t) : t[i] = c /\ \A j \in 1..(i - 1) : t[j] # c
    ELSE 0

\* String.prototype.includes with a one-character needle.
Includes(t, c) == IndexOf(t, c) # 0

\* String.prototype.replace(c, r) with a string pattern: the FIRST
\* occurrence only.
ReplaceAt(t, i, r) ==
    IF i = 0 THEN t ELSE SubSeq(t, 1, i - 1) \o r \o SubSeq(t, i + 1, Len(t))

ReplaceFirst(t, c, r) == ReplaceAt(t, IndexOf(t, c), r)

\* Decimal text of a natural number.
RECURSIVE NatToText(_)
NatToText(n) ==
    IF n < 10 THEN <<Digits[n + 1]>>
    ELSE NatToText(n \div 10) \o <<Digits[(n % 10) + 1]>>

RECURSIVE TextToNat(_)
TextToNat(t) ==
    IF Len(t) = 0 THEN 0
    ELSE 10 * TextToNat(SubSeq(t, 1, Len(t) - 1)) + DigitValue(t[Len(t)])

(***************************************************************************)
(* JSON.stringify / JSON.parse for the values a cursor holds.              *)
(***************************************************************************)
Quote == "\""
Backslash == "\\"

\* Escaping of a string body by JSON.stringify.
RECURSIVE JsonEscape(_)
JsonEscape(s) ==
    IF Len(s) = 0 THEN <<>>
    ELSE (IF Head(s) = Quote \/ Head(s) = Backslash
          THEN <<Backslash, Head(s)>>
          ELSE <<Head(s)>>) \o JsonEscape(Tail(s))

JsonQuote(s) == <<Quote>> \o JsonEscape(s) \o <<Quote>>

\* JSON.stringify of a scalar.  A Date serialises through toJSON as its
\* ISO string; null serialises as null.
StringifyScalar(v) ==
    CASE v.k = "num" -> NatToText(v.n)
      [] v.k = "str" -> JsonQuote(v.s)
      [] v.k = "date" -> JsonQuote(v.s)
      [] v.k = "bool" -> IF v.n # 0 THEN <<"t", "r", "u", "e">>
                         ELSE <<"f", "a", "l", "s", "e">>
      [] OTHER -> <<"n", "u", "l", "l">>

\* JSON.stringify of an array of strings.
RECURSIVE JoinQuoted(_)
JoinQuoted(items) ==
    IF Len(items) = 0 THEN <<>>
    ELSE JsonQuote(Head(items)) \o
         (IF Len(items) > 1 THEN <<",">> ELSE <<>>) \o JoinQuoted(Tail(items))

StringifyArray(items) == <<"[">> \o JoinQuoted(items) \o <<"]">>

\* Result of a parse: ok = FALSE stands for the SyntaxError / TypeError
\* JSON.parse (or the .map after it) throws.
ParseError == [ok |-> FALSE, val |-> Null, items |-> <<>>, rest |-> <<>>]

\* Reads a JSON string literal at the head of t: its body and what follows.
RECURSIVE ReadStringBody(_, _)
ReadStringBody(t, acc) ==
    IF Len(t) = 0 THEN ParseError
    ELSE IF Head(t) = Quote
         THEN [ok |-> TRUE, val |-> Str(acc), items |-> <<>>, rest |-> Tail(t)]
    ELSE IF Head(t) = Backslash
         THEN IF Len(t) >= 2 /\ (t[2] = Quote \/ t[2] = Backslash)
              THEN ReadStringBody(SubSeq(t, 3, Len(t)), Append(acc, t[2]))
              ELSE ParseError
    ELSE ReadStringBody(Tail(t), Append(acc, Head(t)))

ReadString(t) ==
    IF Len(t) >= 1 /\ Head(t) = Quote THEN ReadStringBody(Tail(t), <<>>)
    ELSE ParseError

\* A value read from the head of a text is the parse of the whole text
\* only when no text follows it.
Whole(r) == IF r.ok /\ r.rest = <<>> THEN r ELSE ParseError

\* JSON.parse of the text of one scalar: null, a boolean, a number or a
\* string.
ParseScalar(t) ==
    IF t = <<"n", "u", "l", "l">> THEN [ParseError EXCEPT !.ok = TRUE]
    ELSE IF t = <<"t", "r", "u", "e">>
         THEN [ParseError EXCEPT !.ok = TRUE, !.val = Bool(TRUE)]
    ELSE IF t = <<"f", "a", "l", "s", "e">>
         THEN [ParseError EXCEPT !.ok = TRUE, !.val = Bool(FALSE)]
    ELSE IF Len(t) >= 1 /\ (\A i \in 1..Len(t) : IsDigit(t[i]))
              /\ (Len(t) = 1 \/ t[1] # "0")
         THEN [ParseError EXCEPT !.ok = TRUE, !.val = Num(TextToNat(t))]
    ELSE IF Len(t) >= 1 /\ Head(t) = Quote THEN Whole(ReadString(t))
    ELSE ParseError

\* JSON.parse of the text of an array of strings: the strings, in order.
RECURSIVE ReadItems(_, _)
AfterItem(r, acc) ==
    IF ~r.ok THEN ParseError
    ELSE IF r.rest = <<"]">>
         THEN [ParseError EXCEPT !.ok = TRUE, !.items = Append(acc, r.val.s)]
    ELSE IF Len(r.rest) >= 1 /\ Head(r.rest) = ","
         THEN ReadItems(Tail(r.rest), Append(acc, r.val.s))
    ELSE ParseError

ReadItems(t, acc) == AfterItem(ReadString(t), acc)

ParseArray(t) ==
    IF t = <<"[", "]">> THEN [ParseError EXCEPT !.ok = TRUE]
    ELSE IF Len(t) >= 1 /\ Head(t) = "[" THEN ReadItems(Tail(t), <<>>)
    ELSE ParseError


(***************************************************************************)
(* The entity behind the paginated query: main alias "f", properties id,   *)
(* a (a number) and b (a string), each stored in a column of the same name.*)
(***************************************************************************)
MainAlias == <<"f">>
IdProperty == <<"i", "d">>
EntityColumns == {<<"i", "d">>, <<"a">>, <<"b">>}

\* A property of the entity stored in a column of another name.
RenamedColumns == <<"n">> :> <<"n", "_", "x">>

\* alias?.metadata?.findColumnWithPropertyName(property)?.databaseName
DatabaseName(property) ==
    IF property \in EntityColumns THEN Str(property)
    ELSE IF property \in DOMAIN RenamedColumns THEN Str(RenamedColumns[property])
    ELSE Undefined

\* Key of a column in a raw row, as the query layer names it: alias_column.
RawKey(alias, column) == alias \o <<"_">> \o column

(***************************************************************************)
(* Order: a JavaScript object used as an ordered map, column -> direction. *)
(* A sequence of entries with distinct keys, in insertion order.           *)
(***************************************************************************)
HasKey(obj, key) == \E i \in 1..Len(obj) : obj[i].column = key

\* obj[key] = direction: an existing key keeps its position, a new key is
\* appended.
SetKey(obj, key, direction) ==
    IF HasKey(obj, key)
    THEN [i \in 1..Len(obj) |->
            IF obj[i].column = key
            THEN [column |-> key, direction |-> direction] ELSE obj[i]]
    ELSE Append(obj, [column |-> key, direction |-> direction])

Keys(obj) == [i \in 1..Len(obj) |-> obj[i].column]

DirectionOf(obj, key) ==
    IF HasKey(obj, key)
    THEN (CHOOSE e \in {obj[i] : i \in 1..Len(obj)} : e.column = key).direction
    ELSE "none"

\* isVirtual(property): !!this.virtual[property]
IsVirtual(virtual, property) ==
    property \in DOMAIN virtual /\ virtual[property] # <<>>

\* Mutant of BuiltKey: a bare property is not qualified by the main alias.
BuiltKeyUnqualified(virtual, property) == property

\* The key buildOrdering stores a property under: the property itself
\* when it is aliased or virtual, else `${alias.name}.${column}` with
\* column = meta?.databaseName || property.
BuiltKey(virtual, property) ==
    IF Includes(property, ".") \/ IsVirtual(virtual, property)
    THEN property
    ELSE MainAlias \o <<".">> \o OrElse(DatabaseName(property), Str(property)).s

RECURSIVE BuildEntries(_, _, _)
BuildEntries(baseOrder, virtual, builtOrder) ==
    IF Len(baseOrder) = 0 THEN builtOrder
    ELSE BuildEntries(Tail(baseOrder), virtual,
                      SetKey(builtOrder, BuiltKey(virtual, Head(baseOrder).column),
                             Head(baseOrder).direction))

\* buildOrdering: { ...order, id: "ASC" }, then every bare property
\* qualified by the main alias.
BuildOrdering(callerOrder, virtual) ==
    BuildEntries(SetKey(callerOrder, IdProperty, "ASC"), virtual, <<>>)

(***************************************************************************)
(* Column expressions.                                                     *)
(***************************************************************************)
RECURSIVE Split(_, _)
SplitAt(t, c, i) ==
    IF i = 0 THEN <<t>>
    ELSE <<SubSeq(t, 1, i - 1)>> \o Split(SubSeq(t, i + 1, Len(t)), c)

Split(t, c) == SplitAt(t, c, IndexOf(t, c))

RECURSIVE Join(_, _)
Join(parts, c) ==
    IF Len(parts) = 0 THEN <<>>
    ELSE IF Len(parts) = 1 THEN Head(parts)
    ELSE Head(parts) \o <<c>> \o Join(Tail(parts), c)

\* query.connection.driver.escape of the Postgres driver.
DriverEscape(name) == <<Quote>> \o name \o <<Quote>>

EscapeParts(parts) == [i \in 1..Len(parts) |-> DriverEscape(parts[i])]

\* column.replace('"', "").split("."): what the driver's escape is given.
EscapeArguments(column) == Split(ReplaceFirst(column, Quote, <<>>), ".")

EscapeColumn(column) == Join(EscapeParts(EscapeArguments(column)), ".")

GetColumnExpression(virtual, column) ==
    IF column \in DOMAIN virtual THEN virtual[column] ELSE EscapeColumn(column)

(***************************************************************************)
(* Cursor codec.                                                           *)
(***************************************************************************)
\* row[property], undefined when the raw row has no such key.
Field(row, property) ==
    IF property \in DOMAIN row THEN row[property] ELSE Undefined

\* JSON.stringify(row[column.replace(".", "_")] || null)
EncodeColumn(row, column) ==
    StringifyScalar(OrElse(Field(row, ReplaceFirst(column, ".", <<"_">>)), Null))

EncodeCursor(ord, row) ==
    StringifyArray([i \in 1..Len(ord) |-> EncodeColumn(row, ord[i].column)])

\* JSON.parse(cursor).map((item) => JSON.parse(item)); ok = FALSE when
\* either parse throws.
AllParsed(inner) ==
    IF \E i \in 1..Len(inner) : ~inner[i].ok THEN ParseError
    ELSE [ParseError EXCEPT !.ok = TRUE,
             !.items = [i \in 1..Len(inner) |-> inner[i].val]]

ParseItems(outer) ==
    IF ~outer.ok THEN ParseError
    ELSE AllParsed([i \in 1..Len(outer.items) |-> ParseScalar(outer.items[i])])

DecodeCursor(cursor) == ParseItems(ParseArray(cursor))

(***************************************************************************)
(* The query builder: ORDER BY entries, AND-ed WHERE groups, named         *)
(* parameters and a LIMIT.  A WHERE group is a tree of comparisons of a    *)
(* column expression with a named parameter.                               *)
(***************************************************************************)
\* A query without added SELECT, ORDER BY, WHERE or LIMIT (limit -1: none).
EmptyQuery == [selects |-> <<>>, orderBys |-> <<>>, wheres |-> <<>>,
               parameters |-> <<>>, limit |-> -1]

\* query.addSelect(expression, alias)
AddSelect(query, expression, alias) ==
    [query EXCEPT !.selects =
        Append(@, [expression |-> expression, alias |-> alias])]

\* query.orderBy(expression, direction): replaces every earlier ORDER BY.
OrderBy(query, expression, direction) ==
    [query EXCEPT !.orderBys = SetKey(<<>>, expression, direction)]

\* query.addOrderBy(expression, direction)
AddOrderBy(query, expression, direction) ==
    [query EXCEPT !.orderBys = SetKey(@, expression, direction)]

\* query.setParameter(name, value): a later value for a name replaces the
\* earlier one.
SetParameter(query, name, value) ==
    [query EXCEPT !.parameters =
        IF \E i \in 1..Len(@) : @[i].name = name
        THEN [i \in 1..Len(@) |->
                IF @[i].name = name THEN [name |-> name, value |-> value]
                ELSE @[i]]
        ELSE Append(@, [name |-> name, value |-> value])]

ParameterValue(parameters, name) ==
    IF \E i \in 1..Len(parameters) : parameters[i].name = name
    THEN (CHOOSE e \in {parameters[i] : i \in 1..Len(parameters)} :
            e.name = name).value
    ELSE Undefined

\* Mutant of OrderColumn: every column replaces the ORDER BY of the ones
\* before it.
OrderColumnReplacing(query, expression, direction, index) ==
    OrderBy(query, expression, direction)

\* One step of the forEach of applyOrdering.
OrderColumn(query, expression, direction, index) ==
    IF index = 0 THEN OrderBy(query, expression, direction)
    ELSE AddOrderBy(query, expression, direction)

\* if (this.isVirtual(column)) query.addSelect(expression, column)
SelectVirtual(query, virtual, column) ==
    IF IsVirtual(virtual, column)
    THEN AddSelect(query, GetColumnExpression(virtual, column), column)
    ELSE query

RECURSIVE ApplyOrderingFrom(_, _, _, _)
ApplyOrderingFrom(query, virtual, ord, index) ==
    IF index >= Len(ord) THEN query
    ELSE ApplyOrderingFrom(
             OrderColumn(SelectVirtual(query, virtual, ord[index + 1].column),
                         GetColumnExpression(virtual, ord[index + 1].column),
                         ord[index + 1].direction, index),
             virtual, ord, index + 1)

\* applyOrdering(query, order)
ApplyOrdering(query, virtual, ord) == ApplyOrderingFrom(query, virtual, ord, 0)

\* Mutant of Inverse: a descending column stays descending.
InverseOfAscendingOnly(direction) == "DESC"

\* direction === "ASC" ? "DESC" : "ASC"
Inverse(direction) == IF direction = "ASC" THEN "DESC" ELSE "ASC"

\* Mutant of ReverseOrdering: the directions of this.order are kept.
ReverseOrderingKeepingDirections(query, virtual, ord) ==
    ApplyOrdering(query, virtual, ord)

\* reverseOrdering(query): every direction of this.order inverted.
ReverseOrdering(query, virtual, ord) ==
    ApplyOrdering(query, virtual,
        [i \in 1..Len(ord) |->
            [column |-> ord[i].column, direction |-> Inverse(ord[i].direction)]])

\* Mutant of ParameterName: one name per column for both boundaries.
ParameterNameShared(isBefore, index) ==
    <<"_", "a", "f", "t", "e", "r", "_">> \o NatToText(index)

\* `_before_${index}` / `_after_${index}`
ParameterName(isBefore, index) ==
    (IF isBefore THEN <<"_", "b", "e", "f", "o", "r", "e", "_">>
     ELSE <<"_", "a", "f", "t", "e", "r", "_">>) \o NatToText(index)

\* position[index], undefined past the end of the decoded cursor.
At(position, index) ==
    IF index + 1 \in 1..Len(position) THEN position[index + 1] ELSE Undefined

\* Mutant of Comparison: the strict comparators admit equality.
ComparisonAdmittingEqual(expression, comparator, parameter) ==
    [op |-> "cmp", expression |-> expression,
     comparator |-> IF Len(comparator) = 1 THEN comparator \o "=" ELSE comparator,
     parameter |-> parameter]

\* One comparison of a column expression with a named parameter.
Comparison(expression, comparator, parameter) ==
    [op |-> "cmp", expression |-> expression, comparator |-> comparator,
     parameter |-> parameter]

\* Mutant of Comparator: the column's direction is not consulted.
ComparatorIgnoringDirection(isBefore, isReversed) ==
    IF isBefore THEN "<" ELSE ">"

\* The strict comparator of applyWhere for one column.
Comparator(isBefore, isReversed) == IF isBefore # isReversed THEN "<" ELSE ">"

\* index >= columns.length - 1
IsDiscriminant(ord, index) == index >= Len(ord) - 1

\* The clauses applyWhere adds for one column: totalOrder alone for the
\* discriminant, else partialOrder AND (totalOrder OR <the next columns>).
WhereClause(expression, comparator, parameter, isDiscriminant, next) ==
    IF isDiscriminant THEN Comparison(expression, comparator, parameter)
    ELSE [op |-> "and",
          left |-> Comparison(expression, comparator \o "=", parameter),
          right |-> [op |-> "or",
                     left |-> Comparison(expression, comparator, parameter),
                     right |-> next]]

\* The predicate tree applyWhere builds from column `index` on.
RECURSIVE WhereTree(_, _, _, _)
WhereTree(virtual, ord, index, isBefore) ==
    WhereClause(GetColumnExpression(virtual, ord[index + 1].column),
                Comparator(isBefore,
                           DirectionOf(ord, ord[index + 1].column) = "DESC"),
                ParameterName(isBefore, index),
                IsDiscriminant(ord, index),
                IF IsDiscriminant(ord, index) THEN <<>>
                ELSE WhereTree(virtual, ord, index + 1, isBefore))

\* The setParameter calls of applyWhere, column by column.
RECURSIVE BindPosition(_, _, _, _, _)
BindPosition(query, ord, position, index, isBefore) ==
    IF index >= Len(ord) THEN query
    ELSE BindPosition(
             SetParameter(query, ParameterName(isBefore, index),
                          At(position, index)),
             ord, position, index + 1, isBefore)

\* applyCursor(query, cursor, isBefore) for a cursor that decodes.
\* query.andWhere(new Brackets(...))
AndWhere(query, tree) == [query EXCEPT !.wheres = Append(@, tree)]

ApplyCursor(query, virtual, ord, cursor, isBefore) ==
    AndWhere(BindPosition(query, ord, DecodeCursor(cursor).items, 0, isBefore),
             WhereTree(virtual, ord, 0, isBefore))

(***************************************************************************)
(* The database side: evaluation of a query over a table of raw rows.      *)
(* SQL comparisons are three-valued: a comparison with NULL is unknown,    *)
(* and WHERE keeps the rows whose predicate is true.                       *)
(***************************************************************************)
RECURSIVE RemoveAll(_, _)
RemoveAll(t, c) ==
    IF Len(t) = 0 THEN <<>>
    ELSE (IF Head(t) = c THEN <<>> ELSE <<Head(t)>>) \o RemoveAll(Tail(t), c)

\* Value of a quoted column reference "alias"."column" in a row.
\* The stored column a quoted reference "alias"."column" resolves to.
Resolve(expression) ==
    ReplaceFirst(RemoveAll(expression, Quote), ".", <<"_">>)

\* Value of a stored column in a row.
StoredColumn(row, key) == IF key \in DOMAIN row THEN row[key] ELSE Null

\* COALESCE(<column>,<number>): the column, or the number when it is NULL.
CoalescePrefix == <<"C", "O", "A", "L", "E", "S", "C", "E", "(">>

IsCoalesce(key) ==
    /\ Len(key) > Len(CoalescePrefix) + 1
    /\ SubSeq(key, 1, Len(CoalescePrefix)) = CoalescePrefix
    /\ key[Len(key)] = ")"
    /\ Includes(key, ",")

CoalesceArguments(key) ==
    Split(SubSeq(key, Len(CoalescePrefix) + 1, Len(key) - 1), ",")

Coalesce(x, y) == IF x.k = "null" THEN y ELSE x

\* Value of a resolved expression in a row: a stored column, or a
\* COALESCE over one.
ColumnOf(row, key) ==
    IF key \in DOMAIN row THEN row[key]
    ELSE IF IsCoalesce(key)
         THEN Coalesce(StoredColumn(row, CoalesceArguments(key)[1]),
                       Num(TextToNat(CoalesceArguments(key)[2])))
    ELSE Null

RECURSIVE TextCompare(_, _)
TextCompare(x, y) ==
    IF Len(x) = 0 /\ Len(y) = 0 THEN "eq"
    ELSE IF Len(x) = 0 THEN "lt"
    ELSE IF Len(y) = 0 THEN "gt"
    ELSE IF CharCode(Head(x)) < CharCode(Head(y)) THEN "lt"
    ELSE IF CharCode(Head(x)) > CharCode(Head(y)) THEN "gt"
    ELSE TextCompare(Tail(x), Tail(y))

IsText(v) == v.k = "str" \/ v.k = "date"

\* x compared with y by the database: unknown when either is NULL (or
\* when a number meets a text).
SqlCompare(x, y) ==
    IF x.k = "num" /\ y.k = "num"
    THEN (IF x.n < y.n THEN "lt" ELSE IF x.n > y.n THEN "gt" ELSE "eq")
    ELSE IF IsText(x) /\ IsText(y) THEN TextCompare(x.s, y.s)
    ELSE "unknown"

Holds3(comparator, c) ==
    IF c = "unknown" THEN "U"
    ELSE IF CASE comparator = "<" -> c = "lt"
              [] comparator = ">" -> c = "gt"
              [] comparator = "<=" -> c \in {"lt", "eq"}
              [] comparator = ">=" -> c \in {"gt", "eq"}
         THEN "T" ELSE "F"

EvalComparator(comparator, x, y) == Holds3(comparator, SqlCompare(x, y))

And3(p, q) ==
    IF p = "F" \/ q = "F" THEN "F" ELSE IF p = "T" /\ q = "T" THEN "T" ELSE "U"

Or3(p, q) ==
    IF p = "T" \/ q = "T" THEN "T" ELSE IF p = "F" /\ q = "F" THEN "F" ELSE "U"

\* A WHERE tree prepared for execution: every column reference resolved
\* and every named parameter replaced by the value bound to it.
RECURSIVE Prepare(_, _)
Prepare(tree, parameters) ==
    IF tree.op = "cmp"
    THEN [op |-> "cmp", comparator |-> tree.comparator,
          key |-> Resolve(tree.expression),
          value |-> ParameterValue(parameters, tree.parameter)]
    ELSE [op |-> tree.op, left |-> Prepare(tree.left, parameters),
          right |-> Prepare(tree.right, parameters)]

RECURSIVE EvalTree(_, _)
EvalTree(tree, row) ==
    CASE tree.op = "cmp" ->
            EvalComparator(tree.comparator, ColumnOf(row, tree.key), tree.value)
      [] tree.op = "and" ->
            And3(EvalTree(tree.left, row), EvalTree(tree.right, row))
      [] tree.op = "or" ->
            Or3(EvalTree(tree.left, row), EvalTree(tree.right, row))

\* The row satisfies every AND-ed WHERE group.
Matches(wheres, row) ==
    \A i \in 1..Len(wheres) : EvalTree(wheres[i], row) = "T"

PreparedWheres(query) ==
    [i \in 1..Len(query.wheres) |-> Prepare(query.wheres[i], query.parameters)]

PreparedOrderBys(query) ==
    [i \in 1..Len(query.orderBys) |->
        [key |-> Resolve(query.orderBys[i].column),
         direction |-> query.orderBys[i].direction]]

\* r1 sorts strictly before r2 under the ORDER BY entries from the i-th on.
\* NULL sorts as larger than every value (the Postgres default).
SortCompare(x, y) ==
    IF x.k = "null" /\ y.k = "null" THEN "eq"
    ELSE IF x.k = "null" THEN "gt"
    ELSE IF y.k = "null" THEN "lt"
    ELSE SqlCompare(x, y)

RECURSIVE SortsBefore(_, _, _, _)
Decide(c, asc, r1, r2, orderBys, i) ==
    IF c = "lt" THEN asc
    ELSE IF c = "gt" THEN ~asc
    ELSE SortsBefore(r1, r2, orderBys, i + 1)

SortsBefore(r1, r2, orderBys, i) ==
    IF i > Len(orderBys) THEN FALSE
    ELSE Decide(SortCompare(ColumnOf(r1, orderBys[i].key),
                            ColumnOf(r2, orderBys[i].key)),
                orderBys[i].direction = "ASC", r1, r2, orderBys, i)

RECURSIVE SortRows(_, _)
FirstThenRest(first, rows, orderBys) ==
    <<first>> \o SortRows(rows \ {first}, orderBys)

SortRows(rows, orderBys) ==
    IF rows = {} THEN <<>>
    ELSE FirstThenRest(CHOOSE r \in rows :
                           \A o \in rows : ~SortsBefore(o, r, orderBys, 1),
                       rows, orderBys)

Take(rows, n) == IF n < 0 \/ n >= Len(rows) THEN rows ELSE SubSeq(rows, 1, n)

Select(wheres, table) == {r \in table : Matches(wheres, r)}

\* A raw row with the added selections, each under its alias.
Selected(row, selects) ==
    [alias \in {selects[i].alias : i \in 1..Len(selects)} |->
        ColumnOf(row, Resolve(
            (CHOOSE s \in {selects[i] : i \in 1..Len(selects)} :
                s.alias = alias).expression))] @@ row

Project(rows, selects) ==
    IF selects = <<>> THEN rows
    ELSE [i \in 1..Len(rows) |-> Selected(rows[i], selects)]

\* getRawAndEntities(): the raw rows of the query, in order, at most LIMIT.
GetRaw(query, table) ==
    Project(Take(SortRows(Select(PreparedWheres(query), table),
                          PreparedOrderBys(query)),
                 query.limit),
            query.selects)

\* getCount(): the number of rows matching the query, whatever its order.
GetCount(query, table) == Cardinality(Select(PreparedWheres(query), table))

(***************************************************************************)
(* CursorPaginator and Page.                                               *)
(*                                                                         *)
(* PageOptions: first and last are <<>> (undefined) or <<n>>; after and    *)
(* before are the cursor text, <<>> when not supplied (undefined and the   *)
(* empty string are both falsy in page()).                                 *)
(***************************************************************************)
\* The constructor: this.query = applyOrdering(query.clone()).
BaseQuery(virtual, ord) == ApplyOrdering(EmptyQuery, virtual, ord)

\* first ?? last
PageSize(options) ==
    IF options.first # <<>> THEN options.first[1] ELSE options.last[1]

\* if (last) ...: a number is truthy unless it is 0.
TruthyNumber(x) == x # <<>> /\ x[1] # 0

\* The query page() executes: a clone of this.query, reversed for last,
\* with the after and before boundaries and LIMIT pageSize + 1.
\* if (last) this.reverseOrdering(query)
Directed(query, virtual, ord, last) ==
    IF TruthyNumber(last) THEN ReverseOrdering(query, virtual, ord) ELSE query

\* if (cursor) this.applyCursor(query, cursor, isBefore)
Bounded(query, virtual, ord, cursor, isBefore) ==
    IF cursor # <<>> THEN ApplyCursor(query, virtual, ord, cursor, isBefore)
    ELSE query

\* Mutant of Limit: the row past the page is not fetched.
LimitWithoutExtraRow(query, n) == [query EXCEPT !.limit = n - 1]

\* query.limit(n)
Limit(query, n) == [query EXCEPT !.limit = n]

PageQuery(query, virtual, ord, options) ==
    Limit(Bounded(Bounded(Directed(query, virtual, ord, options.last),
                          virtual, ord, options.after, FALSE),
                  virtual, ord, options.before, TRUE),
          PageSize(options) + 1)

\* hasNext / hasPrevious of page().
\* Mutant of HasNextAndPrevious: the two directions exchanged.
HasNextAndPreviousExchanged(options, hasMore) ==
    IF options.first = <<>>
    THEN [hasNext |-> hasMore, hasPrevious |-> options.after # <<>>]
    ELSE [hasNext |-> options.before # <<>>, hasPrevious |-> hasMore]

\* Mutant of HasNextAndPrevious: every page treated as a forward page.
HasNextAndPreviousForwardOnly(options, hasMore) ==
    [hasNext |-> hasMore, hasPrevious |-> options.after # <<>>]

HasNextAndPrevious(options, hasMore) ==
    IF options.first # <<>>
    THEN [hasNext |-> hasMore, hasPrevious |-> options.after # <<>>]
    ELSE [hasNext |-> options.before # <<>>, hasPrevious |-> hasMore]

\* new Page(result, { pageSize, paginator: this, ...hasNextAndPrevious })
NewPage(options, raw, pageSize, flags) ==
    [called |-> TRUE, options |-> options, raw |-> raw, pageSize |-> pageSize,
     hasNext |-> flags.hasNext, hasPrevious |-> flags.hasPrevious]

\* The Page built from the rows the query returned.
PageFrom(options, raw) ==
    NewPage(options, raw, PageSize(options),
            HasNextAndPrevious(options, Len(raw) > PageSize(options)))

\* page(options) over the table: the Page it resolves to.
PageOf(query, virtual, ord, table, options) ==
    PageFrom(options, GetRaw(PageQuery(query, virtual, ord, options), table))

\* Mutant of Edges: the entities are not sliced.
EdgesUntruncated(p) == p.raw

\* Page.edges: entities.slice(0, pageSize), each with its raw row.
Edges(p) == Take(p.raw, p.pageSize)

\* Edge.cursor
Cursor(ord, row) == EncodeCursor(ord, row)

\* Page.startCursor / Page.endCursor; <<>> stands for undefined.
CursorAt(ord, edges, i) ==
    IF Len(edges) = 0 THEN <<>> ELSE Cursor(ord, edges[i])

StartCursor(ord, p) == CursorAt(ord, Edges(p), 1)

LastOf(edges) == IF Len(edges) = 0 THEN <<>> ELSE edges[Len(edges)]

\* Mutant of EndCursor: the cursor of the last row the query returned.
EndCursorOfFetched(ord, p) ==
    IF Len(p.raw) = 0 THEN <<>> ELSE Cursor(ord, p.raw[Len(p.raw)])

EndCursor(ord, p) ==
    IF Len(Edges(p)) = 0 THEN <<>> ELSE Cursor(ord, LastOf(Edges(p)))

(***************************************************************************)
(* The table and the inputs of the model.                                  *)
(***************************************************************************)
IdKey == RawKey(MainAlias, IdProperty)
AKey == RawKey(MainAlias, <<"a">>)
BKey == RawKey(MainAlias, <<"b">>)

Row(id, a, b) == (IdKey :> Num(id)) @@ (AKey :> Num(a)) @@ (BKey :> Str(b))

Ids == 1..MaxRows

\* The (a, b) values a row can hold: a is 0, 1 or 2 and b is "a" or a
\* string made of a delimiter and a quote; rows tie on a, on b and on both.
Points == {<<0, <<"a">>>>, <<1, <<"a">>>>, <<1, <<"|", Quote>>>>, <<2, <<"a">>>>}

AllRows == {Row(id, p[1], p[2]) : id \in Ids, p \in Points}

IdOf(row) == row[IdKey].n

\* Every table whose rows have distinct ids.
Tables ==
    UNION {{{Row(id, f[id][1], f[id][2]) : id \in present} :
              f \in [present -> Points]} :
           present \in SUBSET Ids}

Directions == {"ASC", "DESC"}

Entry(property, direction) == [column |-> property, direction |-> direction]

\* Orders a caller passes: no column, one or two of a, b and id in any
\* precedence and any mix of directions.
CallerProperties == {<<"a">>, <<"b">>, IdProperty}

PairsOf(properties) ==
    {pq \in properties \X properties : pq[1] # pq[2]}

CallerOrders ==
    {<<>>}
    \cup {<<Entry(p, d)>> : p \in CallerProperties, d \in Directions}
    \cup {<<Entry(pq[1], d1), Entry(pq[2], d2)>> :
            pq \in PairsOf({<<"a">>, <<"b">>}),
            d1 \in Directions, d2 \in Directions}

NoPage == [called |-> FALSE, options |-> <<>>, raw |-> <<>>, pageSize |-> 0,
           hasNext |-> FALSE, hasPrevious |-> FALSE]

PageSizes == 1..MaxPageSize

Forward(k, after, before) ==
    [first |-> <<k>>, last |-> <<>>, after |-> after, before |-> before]

Backward(k, after, before) ==
    [first |-> <<>>, last |-> <<k>>, after |-> after, before |-> before]

(***************************************************************************)
(* State.                                                                  *)
(***************************************************************************)
VARIABLES
    virtual,    \* the paginator's virtual-column map (this.virtual)
    order,      \* the paginator's canonical order (this.order)
    query,      \* the paginator's ordered base query (this.query)
    table,      \* the rows the base query selects from
    page,       \* the Page the latest page() call resolved to
    prev,       \* the forward page a re-fetch started from, else NoPage
    probe,      \* the latest boundary predicate applied to a row
    codec,      \* the latest cursor encoded, decoded and bound
    iteration,  \* the forward iteration a caller is running, page by page
    construction,   \* the order handed to the constructor, once it has run
    request,    \* the pagination handed to findWithPagination
    builders,   \* the query builders alive, by reference (a heap)
    calls,      \* the page() calls in progress on the paginator, by caller
    escaping,   \* the latest escapeColumn call and what it gave the driver
    loading     \* the latest findWithPagination call and the joins it made

\* The state of the entry points other than a single page() call.
entry == <<construction, request, builders, calls, escaping, loading>>

vars == <<virtual, order, query, table, page, prev, probe, codec, iteration,
          entry>>

NoProbe == [applied |-> FALSE, cursor |-> <<>>, isBefore |-> FALSE,
            row |-> <<>>, holds |-> FALSE]

NoConstruction == [built |-> FALSE, given |-> <<>>]

NoRequest == [made |-> FALSE, pagination |-> <<>>]

NoEscaping == [done |-> FALSE, column |-> <<>>, arguments |-> <<>>,
               escaped |-> <<>>]

NoLoading == [made |-> FALSE, options |-> <<>>, joins |-> {}]

\* No escapeColumn call and no eager loading is under observation.
Unobserved == escaping = NoEscaping /\ loading = NoLoading

\* No constructor call, findWithPagination call or concurrent call is
\* under observation.
Unentered ==
    /\ construction = NoConstruction
    /\ request = NoRequest
    /\ builders = <<>>
    /\ calls = <<>>
    /\ Unobserved

NoCodec == [encoded |-> FALSE, row |-> <<>>, cursor |-> <<>>,
            decoded |-> <<>>, bound |-> <<>>]

NoIteration == [active |-> FALSE, done |-> FALSE, k |-> 0, pages |-> <<>>,
                inserted |-> {}, deleted |-> {}, reused |-> FALSE,
                changes |-> 0]

\* A cursor a caller can hold: the cursor of an edge over some row.
Cursors == {Cursor(order, r) : r \in table}

\* new CursorPaginator(query, order, virtual) over a table.
Init ==
    /\ virtual = <<>>
    /\ order \in {BuildOrdering(c, <<>>) : c \in CallerOrders}
    /\ query = BaseQuery(virtual, order)
    /\ table \in Tables
    /\ page = NoPage
    /\ prev = NoPage
    /\ probe = NoProbe
    /\ codec = NoCodec
    /\ iteration = NoIteration
    /\ Unentered

\* paginator.page(options), with after / before absent or a cursor.
PageCall ==
    /\ ~page.called
    /\ \E k \in PageSizes, after \in {<<>>} \cup Cursors,
       before \in {<<>>} \cup Cursors, backward \in BOOLEAN :
        /\ page' = PageOf(query, virtual, order, table,
                          IF backward THEN Backward(k, after, before)
                          ELSE Forward(k, after, before))
        /\ prev' = NoPage
        /\ UNCHANGED <<entry, virtual, order, query, table, probe, codec, iteration>>

\* The caller is done with the page (pages are ephemeral, owned by the
\* caller); the paginator serves the next call.
Release ==
    /\ page.called
    /\ page' = NoPage
    /\ prev' = NoPage
    /\ UNCHANGED <<entry, virtual, order, query, table, probe, codec, iteration>>

\* After a forward page P: page({last: k, before: P.endCursor}).
Refetch ==
    /\ page.called
    /\ prev = NoPage
    /\ page.options.first # <<>>
    /\ EndCursor(order, page) # <<>>
    /\ page' = PageOf(query, virtual, order, table,
                      Backward(page.pageSize, <<>>, EndCursor(order, page)))
    /\ prev' = page
    /\ UNCHANGED <<entry, virtual, order, query, table, probe, codec, iteration>>

Next == PageCall \/ Refetch \/ Release

Spec == Init /\ [][Next]_vars

(***************************************************************************)
(* The boundary predicate on its own: applyCursor on a fresh query for the *)
(* cursor of any row, and the database's verdict on any row.               *)
(***************************************************************************)
ProbeRows == {Row(id, a, b) : id \in Ids, a \in {0, 1, 2},
                              b \in {<<"a">>, <<"|", Quote>>}}

\* The row satisfies the boundary predicate applyCursor adds for a cursor.
Satisfies(virt, ord, cursor, isBefore, row) ==
    Matches(PreparedWheres(ApplyCursor(EmptyQuery, virt, ord, cursor, isBefore)),
            row)

InitBoundary ==
    /\ virtual = <<>>
    /\ order \in {BuildOrdering(c, <<>>) : c \in CallerOrders}
    /\ query = BaseQuery(virtual, order)
    /\ table = {}
    /\ page = NoPage
    /\ prev = NoPage
    /\ probe = NoProbe
    /\ codec = NoCodec
    /\ iteration = NoIteration
    /\ Unentered

ApplyBoundary ==
    /\ ~probe.applied
    /\ \E source \in ProbeRows, isBefore \in BOOLEAN, row \in ProbeRows :
          probe' = [applied |-> TRUE, cursor |-> Cursor(order, source),
                    isBefore |-> isBefore, row |-> row,
                    holds |-> Satisfies(virtual, order, Cursor(order, source),
                                        isBefore, row)]
    /\ UNCHANGED <<entry, virtual, order, query, table, page, prev, codec, iteration>>

ForgetBoundary ==
    /\ probe.applied
    /\ probe' = NoProbe
    /\ UNCHANGED <<entry, virtual, order, query, table, page, prev, codec, iteration>>

NextBoundary == ApplyBoundary \/ ForgetBoundary

SpecBoundary == InitBoundary /\ [][NextBoundary]_vars

(***************************************************************************)
(* Pages between two cursors: after is the cursor of a row of the table,   *)
(* before a cursor the caller holds from any earlier time, of a row that    *)
(* may since have changed or gone.  The rows hold no falsy value, so that  *)
(* every cursor carries the row's own values.                              *)
(***************************************************************************)
IntervalRows == {r \in AllRows : Truthy(r[AKey])}

HeldCursors == {Cursor(order, r) : r \in IntervalRows}

InitInterval ==
    /\ virtual = <<>>
    /\ order \in {BuildOrdering(c, <<>>) : c \in CallerOrders}
    /\ query = BaseQuery(virtual, order)
    /\ table \in {t \in Tables : /\ Cardinality(t) = MaxRows
                                 /\ t \subseteq IntervalRows}
    /\ page = NoPage
    /\ prev = NoPage
    /\ probe = NoProbe
    /\ codec = NoCodec
    /\ iteration = NoIteration
    /\ Unentered

\* paginator.page({first or last, after, before})
PageBetween ==
    /\ ~page.called
    /\ \E k \in PageSizes, after \in Cursors, before \in HeldCursors,
          backward \in BOOLEAN :
        /\ page' = PageOf(query, virtual, order, table,
                          IF backward THEN Backward(k, after, before)
                          ELSE Forward(k, after, before))
        /\ UNCHANGED <<entry, virtual, order, query, table, prev, probe, codec,
                       iteration>>

NextInterval == PageBetween \/ Release

SpecInterval == InitInterval /\ [][NextInterval]_vars

(***************************************************************************)
(* The cursor codec on its own: encodeCursor of a row, decodeCursor of the *)
(* result, and the parameters applyCursor binds from it.  The columns hold *)
(* numbers (0 among them), strings (the empty string and strings of        *)
(* delimiters among them) and a Date.                                      *)
(***************************************************************************)
NewYear == Date(<<"2", "0", "2", "0", "-", "0", "1", "-", "0", "1", "T",
                  "0", "0", ":", "0", "0", ":", "0", "0", ".", "0", "0", "0",
                  "Z">>)

CodecRows ==
    {(IdKey :> Num(id)) @@ (AKey :> a) @@ (BKey :> b) :
        id \in Ids,
        a \in {Num(0), Num(1), Num(10)},
        b \in {Str(<<>>), Str(<<"a">>), Str(<<"|", Quote>>),
               Str(<<Backslash, ",", "]">>), NewYear}}

\* decodeCursor(encodeCursor(row)) and the parameters bound from it.
CodecOf(virt, ord, row, cursor) ==
    [encoded |-> TRUE, row |-> row, cursor |-> cursor,
     decoded |-> DecodeCursor(cursor),
     bound |-> ApplyCursor(EmptyQuery, virt, ord, cursor, FALSE).parameters]

InitCodec ==
    /\ virtual = <<>>
    /\ order \in {BuildOrdering(c, <<>>) : c \in CallerOrders}
    /\ query = BaseQuery(virtual, order)
    /\ table = {}
    /\ page = NoPage
    /\ prev = NoPage
    /\ probe = NoProbe
    /\ codec = NoCodec
    /\ iteration = NoIteration
    /\ Unentered

EncodeDecode ==
    /\ ~codec.encoded
    /\ \E row \in CodecRows :
          codec' = CodecOf(virtual, order, row, EncodeCursor(order, row))
    /\ UNCHANGED <<entry, virtual, order, query, table, page, prev, probe, iteration>>

ForgetCodec ==
    /\ codec.encoded
    /\ codec' = NoCodec
    /\ UNCHANGED <<entry, virtual, order, query, table, page, prev, probe, iteration>>

NextCodec == EncodeDecode \/ ForgetCodec

SpecCodec == InitCodec /\ [][NextCodec]_vars

(***************************************************************************)
(* A forward iteration: page({first: k}), then page({first: k, after: the  *)
(* end cursor of the previous page}) until hasNextPage is false.           *)
(***************************************************************************)
\* The iteration after page p has been received.
Iterating(it, k, p) ==
    [it EXCEPT !.active = TRUE, !.k = k, !.done = ~p.hasNext,
               !.pages = Append(@, Edges(p))]

StartIteration ==
    /\ ~iteration.active
    /\ \E k \in PageSizes :
        /\ page' = PageOf(query, virtual, order, table, Forward(k, <<>>, <<>>))
        /\ iteration' = Iterating(NoIteration, k, page')
    /\ UNCHANGED <<entry, virtual, order, query, table, prev, probe, codec>>

NextPage ==
    /\ iteration.active
    /\ ~iteration.done
    /\ page' = PageOf(query, virtual, order, table,
                      Forward(iteration.k, EndCursor(order, page), <<>>))
    /\ iteration' = Iterating(iteration, iteration.k, page')
    /\ UNCHANGED <<entry, virtual, order, query, table, prev, probe, codec>>

EndIteration ==
    /\ iteration.active
    /\ iteration.done
    /\ page' = NoPage
    /\ iteration' = NoIteration
    /\ UNCHANGED <<entry, virtual, order, query, table, prev, probe, codec>>

NextIterate == StartIteration \/ NextPage \/ EndIteration

SpecIterate == Init /\ [][NextIterate]_vars

(***************************************************************************)
(* A forward iteration over a result set that changes between its page()   *)
(* calls: other clients insert rows (under an id no present row has) and   *)
(* delete rows.  The iteration records which ids were inserted and         *)
(* deleted, and whether an insert took the id of a row deleted earlier.    *)
(***************************************************************************)
ChurnRows == {r \in AllRows : r[BKey] = Str(<<"a">>)}

InitChurn ==
    /\ virtual = <<>>
    /\ order \in {BuildOrdering(c, <<>>) : c \in CallerOrders}
    /\ query = BaseQuery(virtual, order)
    /\ table \in {t \in Tables : t \subseteq ChurnRows}
    /\ page = NoPage
    /\ prev = NoPage
    /\ probe = NoProbe
    /\ codec = NoCodec
    /\ iteration = NoIteration
    /\ Unentered

InsertRow ==
    /\ iteration.active
    /\ ~iteration.done
    /\ iteration.changes < MaxChanges
    /\ \E row \in ChurnRows :
        /\ \A r \in table : IdOf(r) # IdOf(row)
        /\ table' = table \cup {row}
        /\ iteration' =
              [iteration EXCEPT !.inserted = @ \cup {IdOf(row)},
                                !.reused = @ \/ IdOf(row) \in iteration.deleted,
                                !.changes = @ + 1]
    /\ UNCHANGED <<entry, virtual, order, query, page, prev, probe, codec>>

DeleteRow ==
    /\ iteration.active
    /\ ~iteration.done
    /\ iteration.changes < MaxChanges
    /\ \E row \in table :
        /\ table' = table \ {row}
        /\ iteration' =
              [iteration EXCEPT !.deleted = @ \cup {IdOf(row)},
                                !.changes = @ + 1]
    /\ UNCHANGED <<entry, virtual, order, query, page, prev, probe, codec>>

NextChurn ==
    StartIteration \/ NextPage \/ EndIteration \/ InsertRow \/ DeleteRow

SpecChurn == InitChurn /\ [][NextChurn]_vars

(***************************************************************************)
(* encodeCursor over rows of any shape: a row may lack the columns a and   *)
(* b, or hold in them a number, a string, a boolean or null.               *)
(***************************************************************************)
Absent == <<>>

\* The row with the given columns; a column of value Absent is left out.
Having(key, value) == IF value = Absent THEN <<>> ELSE key :> value

SparseRows ==
    {(IdKey :> Num(id)) @@ Having(AKey, a) @@ Having(BKey, b) :
        id \in 1..2,
        a \in {Absent, Null, Num(0), Num(1), Bool(FALSE), Bool(TRUE)},
        b \in {Absent, Str(<<>>), Str(<<"a">>)}}

\* encodeCursor(row) for any row, and decodeCursor of the result.
EncodeSparse ==
    /\ ~codec.encoded
    /\ \E row \in SparseRows :
          codec' = CodecOf(virtual, order, row, EncodeCursor(order, row))
    /\ UNCHANGED <<entry, virtual, order, query, table, page, prev, probe, iteration>>

NextEncode == EncodeSparse \/ ForgetCodec

SpecEncode == InitCodec /\ [][NextEncode]_vars

(***************************************************************************)
(* The constructor on its own: new CursorPaginator(query, order, virtual)  *)
(* for an order of up to three of the properties a, id, n (stored in the   *)
(* column n_x), the aliased g.c and v, in any precedence and any           *)
(* directions, v being virtual or a name the entity does not have.         *)
(***************************************************************************)
GivenProperties == {<<"a">>, IdProperty, <<"g", ".", "c">>, <<"v">>, <<"n">>}

TriplesOf(properties) ==
    {t \in properties \X properties \X properties :
        t[1] # t[2] /\ t[1] # t[3] /\ t[2] # t[3]}

GivenOrders ==
    {<<>>}
    \cup {<<Entry(p, d)>> : p \in GivenProperties, d \in Directions}
    \cup {<<Entry(pq[1], d1), Entry(pq[2], d2)>> :
            pq \in PairsOf(GivenProperties),
            d1 \in Directions, d2 \in Directions}
    \cup {<<Entry(t[1], d1), Entry(t[2], d2), Entry(t[3], d3)>> :
            t \in TriplesOf(GivenProperties),
            d1 \in Directions, d2 \in Directions, d3 \in Directions}

VirtualMaps == {<<>>, <<"v">> :> <<"n", "o", "w", "(", ")">>}

InitOrdering ==
    /\ virtual \in VirtualMaps
    /\ order = <<>>
    /\ query = EmptyQuery
    /\ table = {}
    /\ page = NoPage
    /\ prev = NoPage
    /\ probe = NoProbe
    /\ codec = NoCodec
    /\ iteration = NoIteration
    /\ Unobserved
    /\ construction \in {[built |-> FALSE, given |-> o] : o \in GivenOrders}
    /\ request = NoRequest
    /\ builders = <<>>
    /\ calls = <<>>

\* this.order = this.buildOrdering(query, order);
\* this.query = this.applyOrdering(query)
Construct ==
    /\ ~construction.built
    /\ order' = BuildOrdering(construction.given, virtual)
    /\ query' = BaseQuery(virtual, order')
    /\ construction' = [construction EXCEPT !.built = TRUE]
    /\ UNCHANGED <<escaping, loading, virtual, table, page, prev, probe, codec, iteration,
                   request, builders, calls>>

\* The paginator is dropped; the caller may construct another one.
Drop ==
    /\ construction.built
    /\ order' = <<>>
    /\ query' = EmptyQuery
    /\ construction' = [construction EXCEPT !.built = FALSE]
    /\ UNCHANGED <<escaping, loading, virtual, table, page, prev, probe, codec, iteration,
                   request, builders, calls>>

NextOrdering == Construct \/ Drop

SpecOrdering == InitOrdering /\ [][NextOrdering]_vars

(***************************************************************************)
(* findWithPagination(repository, {order, pagination}): a paginator is     *)
(* built over the repository's rows and asked for one page.  options is    *)
(* <<>> when the caller passes no pagination, else <<pagination>>; a field *)
(* of pagination is <<>> when undefined.                                   *)
(***************************************************************************)
DefaultFirst == 100

EmptyPagination ==
    [first |-> <<>>, last |-> <<>>, after |-> <<>>, before |-> <<>>]

\* const { pagination = {} } = options
PaginationOf(options) == IF options = <<>> THEN EmptyPagination ELSE options[1]

\* Mutant of FirstOrDefault: a default of ten rows.
FirstOrDefaultOfTen(first) == IF first = <<>> THEN <<10>> ELSE first

\* const { first = 100 } = pagination
FirstOrDefault(first) == IF first = <<>> THEN <<DefaultFirst>> ELSE first

\* last ? { last, after, before } : { first, after, before }
PageOptionsOf(pagination) ==
    IF TruthyNumber(pagination.last)
    THEN [first |-> <<>>, last |-> pagination.last,
          after |-> pagination.after, before |-> pagination.before]
    ELSE [first |-> FirstOrDefault(pagination.first),
          last |-> <<>>,
          after |-> pagination.after, before |-> pagination.before]

\* The repository's rows: three rows without falsy values, or more rows
\* than the default page size.
ManyRows == {Row(id, 1, <<"a">>) : id \in 1..(DefaultFirst + 1)}

FindTables ==
    {t \in Tables : Cardinality(t) = MaxRows /\ t \subseteq IntervalRows}

\* The cursors a caller of findWithPagination holds: of the rows whose id
\* is among the first MaxRows.
FindCursors == {Cursor(order, r) : r \in {x \in table : IdOf(x) \in Ids}}

Paginations ==
    {[first |-> f, last |-> l, after |-> a, before |-> b] :
        f \in {<<>>} \cup {<<k>> : k \in PageSizes},
        l \in {<<>>, <<0>>, <<1>>},
        a \in {<<>>} \cup FindCursors,
        b \in {<<>>} \cup FindCursors}

InitFind ==
    /\ virtual = <<>>
    /\ \/ /\ order \in {BuildOrdering(c, <<>>) : c \in CallerOrders}
          /\ table \in FindTables
       \/ /\ order = BuildOrdering(<<>>, <<>>)
          /\ table = ManyRows
    /\ query = BaseQuery(virtual, order)
    /\ page = NoPage
    /\ prev = NoPage
    /\ probe = NoProbe
    /\ codec = NoCodec
    /\ iteration = NoIteration
    /\ Unentered

\* findWithPagination with options whose pagination is given or not.
Find ==
    /\ ~request.made
    /\ \E options \in {<<>>} \cup {<<p>> : p \in Paginations} :
        /\ Cardinality(table) > MaxRows =>
              (options = <<>> \/ options = <<EmptyPagination>>)
        /\ request' = [made |-> TRUE, pagination |-> options]
        /\ page' = PageOf(query, virtual, order, table,
                          PageOptionsOf(PaginationOf(options)))
    /\ UNCHANGED <<escaping, loading, virtual, order, query, table, prev, probe, codec,
                   iteration, construction, builders, calls>>

\* The caller is done with the page.
Found ==
    /\ request.made
    /\ request' = NoRequest
    /\ page' = NoPage
    /\ UNCHANGED <<escaping, loading, virtual, order, query, table, prev, probe, codec,
                   iteration, construction, builders, calls>>

NextFind == Find \/ Found

SpecFind == InitFind /\ [][NextFind]_vars

(***************************************************************************)
(* Calls in progress.  Query builders are mutable objects: builders.store  *)
(* is the heap, a slot being <<>> (free) or <<the builder's query>>;       *)
(* builders.handed is the builder the constructor was given and            *)
(* builders.base the paginator's this.query.  page() is an async function: *)
(* it runs up to its await in one step, and resumes when the database      *)
(* answers.                                                                *)
(***************************************************************************)
FirstFree(store) ==
    CHOOSE r \in 1..Len(store) :
        store[r] = <<>> /\ \A s \in 1..(r - 1) : store[s] # <<>>

\* Mutant of Clone: the same builder is handed back.
CloneAliasing(store, ref) == [store |-> store, ref |-> ref]

\* query.clone(): a new builder holding a copy of the query.
Clone(store, ref) ==
    [store |-> [store EXCEPT ![FirstFree(store)] = store[ref]],
     ref |-> FirstFree(store)]

\* The constructor: query = query.clone(); this.query =
\* this.applyOrdering(query), which orders the clone in place.
Ordered(cloned, virt, ord, given) ==
    [store |-> [cloned.store EXCEPT ![cloned.ref] =
                   <<ApplyOrdering(cloned.store[cloned.ref][1], virt, ord)>>],
     handed |-> 1, base |-> cloned.ref, given |-> given]

Constructed(given, virt, ord) ==
    Ordered(Clone([r \in 1..(2 + MaxCalls) |-> IF r = 1 THEN <<given>> ELSE <<>>],
                  1),
            virt, ord, given)

IdleCall == [pc |-> "idle", options |-> <<>>, ref |-> 0, fetches |-> 0,
             asked |-> 0, counts |-> 0, result |-> NoPage, total |-> <<>>,
             error |-> "", failure |-> ""]

\* first and last are both undefined.
Sizeless(options) == options.first = <<>> /\ options.last = <<>>

\* decodeCursor throws on the cursor (JSON.parse, or .map of a non-array).
Undecodable(cursor) == cursor # <<>> /\ ~DecodeCursor(cursor).ok

\* The query page() has built when it reaches query.limit(pageSize + 1);
\* with first and last both undefined pageSize + 1 is NaN and, when the
\* query layer accepts it, no LIMIT is set.
WindowQuery(q, virt, ord, options) ==
    IF Sizeless(options)
    THEN Bounded(Bounded(Directed(q, virt, ord, options.last),
                         virt, ord, options.after, FALSE),
                 virt, ord, options.before, TRUE)
    ELSE PageQuery(q, virt, ord, options)

\* The call after the part of page() that runs before its await.  The
\* query layer either rejects a NaN limit or ignores it (strict).
Begun(cloned, virt, ord, options, strict) ==
    IF Undecodable(options.after) \/ Undecodable(options.before)
    THEN [store |-> cloned.store,
          call |-> [IdleCall EXCEPT !.pc = "rejected", !.options = options,
                                    !.ref = cloned.ref, !.error = "SyntaxError"]]
    ELSE IF Sizeless(options) /\ strict
    THEN [store |-> cloned.store,
          call |-> [IdleCall EXCEPT !.pc = "rejected", !.options = options,
                                    !.ref = cloned.ref,
                                    !.error = "LimitIsNotANumber"]]
    ELSE [store |-> [cloned.store EXCEPT ![cloned.ref] =
                        <<WindowQuery(cloned.store[cloned.ref][1], virt, ord,
                                      options)>>],
          call |-> [IdleCall EXCEPT !.pc = "awaiting", !.options = options,
                                    !.ref = cloned.ref, !.fetches = 1]]

\* The Page built when getRawAndEntities resolves.  With first and last
\* both undefined nothing exceeds pageSize and slice(0, undefined) keeps
\* every row.
ResultPage(options, raw) ==
    IF Sizeless(options)
    THEN NewPage(options, raw, Len(raw), HasNextAndPrevious(options, FALSE))
    ELSE PageFrom(options, raw)

Resumed(call, raw) ==
    [call EXCEPT !.pc = "returned", !.result = ResultPage(call.options, raw)]

\* Mutant of OnQueryFailure: the query is issued once more.
OnQueryFailureRetrying(call, failure) == [call EXCEPT !.fetches = @ + 1]

\* getRawAndEntities rejects: the await throws and page() rejects with it.
OnQueryFailure(call, failure) ==
    [call EXCEPT !.pc = "rejected", !.error = failure]

\* Mutant of CountTarget: the count runs on the builder of the page.
CountTargetOfPage(store, base, ref) == store[ref]

\* count(): this.query.getCount()
CountTarget(store, base, ref) == store[base]

Counted(call, total) ==
    [call EXCEPT !.asked = @ + 1, !.counts = @ + 1, !.total = <<total>>]

Freed(store, ref) == IF ref = 0 THEN store ELSE [store EXCEPT ![ref] = <<>>]

\* The builder handed to the constructor: without a filter, or with the
\* base filter "f"."a" >= :min, min = 1.
FilteredQuery ==
    AndWhere(SetParameter(EmptyQuery, <<"m", "i", "n">>, Num(1)),
             Comparison(EscapeColumn(MainAlias \o <<".", "a">>), ">=",
                        <<"m", "i", "n">>))

HandedQueries == {EmptyQuery, FilteredQuery}

\* Two rows, the first with a = 0, 1 or 2.
CallTables == {{Row(1, a, <<"a">>), Row(2, 1, <<"|", Quote>>)} : a \in 0..2}

CallOrders ==
    {BuildOrdering(c, <<>>) :
        c \in {<<>>, <<Entry(<<"a">>, "DESC")>>, <<Entry(<<"b">>, "ASC")>>}}

RowOfId(id) == CHOOSE r \in table : IdOf(r) = id

\* Well-formed options: a page size of 1, forward or backward, after the
\* first row's cursor or not, before the second row's cursor or not.
CallOptions ==
    {IF backward THEN Backward(1, a, b) ELSE Forward(1, a, b) :
        backward \in BOOLEAN,
        a \in {<<>>, Cursor(order, RowOfId(1))},
        b \in {<<>>, Cursor(order, RowOfId(2))}}

\* The failures of the query layer.
QueryErrors == {"ConnectionLost"}

InitCalls ==
    /\ virtual = <<>>
    /\ order \in CallOrders
    /\ table \in CallTables
    /\ builders \in {Constructed(h, virtual, order) : h \in HandedQueries}
    /\ query = builders.store[builders.base][1]
    /\ calls = [c \in 1..MaxCalls |-> IdleCall]
    /\ page = NoPage
    /\ prev = NoPage
    /\ probe = NoProbe
    /\ codec = NoCodec
    /\ iteration = NoIteration
    /\ Unobserved
    /\ construction = NoConstruction
    /\ request = NoRequest

\* The state after caller c ran page(options) up to its await.
AfterBegin(c, out) ==
    /\ builders' = [builders EXCEPT !.store = out.store]
    /\ calls' = [calls EXCEPT ![c] = out.call]
    /\ UNCHANGED <<escaping, loading, virtual, order, query, table, page, prev, probe, codec,
                   iteration, construction, request>>

Begin(c, options, strict) ==
    /\ calls[c].pc = "idle"
    /\ AfterBegin(c, Begun(Clone(builders.store, builders.base), virtual,
                           order, options, strict))

\* A caller calls page() with well-formed options.
BeginPage ==
    \E c \in DOMAIN calls, options \in CallOptions : Begin(c, options, TRUE)

\* The database answers: the await of page() resolves and the Page is
\* built.
CompletePage ==
    \E c \in DOMAIN calls :
        /\ calls[c].pc = "awaiting"
        /\ calls' = [calls EXCEPT ![c] =
                        Resumed(@, GetRaw(builders.store[@.ref][1], table))]
        /\ UNCHANGED <<escaping, loading, virtual, order, query, table, page, prev, probe, codec,
                       iteration, construction, request, builders>>

\* The query fails.
FailPage ==
    \E c \in DOMAIN calls, failure \in QueryErrors :
        /\ calls[c].pc = "awaiting"
        /\ calls' = [calls EXCEPT ![c] =
                        [OnQueryFailure(@, failure) EXCEPT !.failure = failure]]
        /\ UNCHANGED <<escaping, loading, virtual, order, query, table, page, prev, probe, codec,
                       iteration, construction, request, builders>>

\* page.pageInfo.totalCount()
TotalCount ==
    \E c \in DOMAIN calls :
        /\ calls[c].pc = "returned"
        /\ calls[c].asked < MaxCounts
        /\ calls' = [calls EXCEPT ![c] =
                        Counted(@, GetCount(CountTarget(builders.store,
                                                        builders.base,
                                                        @.ref)[1],
                                            table))]
        /\ UNCHANGED <<escaping, loading, virtual, order, query, table, page, prev, probe, codec,
                       iteration, construction, request, builders>>

\* The caller is done with the page or the error; the builder of the call
\* is no longer referenced.
ReleaseCall ==
    \E c \in DOMAIN calls :
        /\ calls[c].pc \in {"returned", "rejected"}
        /\ calls' = [calls EXCEPT ![c] = IdleCall]
        /\ builders' = [builders EXCEPT !.store = Freed(@, calls[c].ref)]
        /\ UNCHANGED <<escaping, loading, virtual, order, query, table, page, prev, probe, codec,
                       iteration, construction, request>>

NextCalls == BeginPage \/ CompletePage \/ FailPage \/ TotalCount \/ ReleaseCall

SpecCalls == InitCalls /\ [][NextCalls]_vars

(***************************************************************************)
(* One caller, any options: first and last each present or not, after and  *)
(* before each absent, a cursor of a row, or a token no edge produced.     *)
(***************************************************************************)
\* Not JSON; a JSON number; an empty array; four items; an item that is
\* not JSON.
Tokens ==
    {<<"x">>, <<"1">>, <<"[", "]">>,
     StringifyArray(<<<<"1">>, <<"1">>, <<"1">>, <<"1">>>>),
     StringifyArray(<<<<"x">>>>)}

AnyOptions ==
    {[first |-> f, last |-> l, after |-> a, before |-> b] :
        f \in {<<>>, <<1>>}, l \in {<<>>, <<1>>},
        a \in {<<>>} \cup Cursors \cup Tokens,
        b \in {<<>>} \cup Cursors \cup Tokens}

InitOptions ==
    /\ virtual = <<>>
    /\ order \in CallOrders
              \cup {BuildOrdering(<<Entry(<<"a">>, "DESC"),
                                    Entry(<<"b">>, "ASC")>>, <<>>)}
    /\ table \in CallTables
    /\ builders = Constructed(EmptyQuery, virtual, order)
    /\ query = builders.store[builders.base][1]
    /\ calls = [c \in {1} |-> IdleCall]
    /\ page = NoPage
    /\ prev = NoPage
    /\ probe = NoProbe
    /\ codec = NoCodec
    /\ iteration = NoIteration
    /\ Unobserved
    /\ construction = NoConstruction
    /\ request = NoRequest

\* A caller calls page() with any options, on a query layer that rejects
\* a NaN limit or not.
BeginAnyPage ==
    \E c \in DOMAIN calls, options \in AnyOptions, strict \in BOOLEAN :
        Begin(c, options, strict)

NextOptions ==
    BeginAnyPage \/ CompletePage \/ FailPage \/ TotalCount \/ ReleaseCall

SpecOptions == InitOptions /\ [][NextOptions]_vars

(***************************************************************************)
(* Paging by a nullable column through a virtual column: the order is      *)
(* {v: <direction>} and virtual maps v to COALESCE(f.a,<fallback>), the    *)
(* column a being NULL in some rows.  A first page is followed by the page *)
(* after its end cursor.                                                   *)
(***************************************************************************)
VirtualName == <<"v">>

Fallbacks == {0, 5}

CoalesceOf(fallback) ==
    CoalescePrefix \o MainAlias \o <<".", "a", ",">> \o NatToText(fallback)
        \o <<")">>

NullableRows ==
    {(IdKey :> Num(id)) @@ (AKey :> a) @@ (BKey :> Str(<<"a">>)) :
        id \in Ids, a \in {Null, Num(0), Num(1), Num(7)}}

NullableTables ==
    {t \in SUBSET NullableRows :
        \A r1 \in t, r2 \in t : r1[IdKey] = r2[IdKey] => r1 = r2}

InitVirtual ==
    /\ virtual \in {VirtualName :> CoalesceOf(f) : f \in Fallbacks}
    /\ order \in {BuildOrdering(<<Entry(VirtualName, d)>>, virtual) :
                     d \in Directions}
    /\ query = BaseQuery(virtual, order)
    /\ table \in NullableTables
    /\ page = NoPage
    /\ prev = NoPage
    /\ probe = NoProbe
    /\ codec = NoCodec
    /\ iteration = NoIteration
    /\ Unentered

\* paginator.page({first: k})
FirstVirtualPage ==
    /\ ~page.called
    /\ \E k \in PageSizes :
          page' = PageOf(query, virtual, order, table, Forward(k, <<>>, <<>>))
    /\ prev' = NoPage
    /\ UNCHANGED <<entry, virtual, order, query, table, probe, codec, iteration>>

\* paginator.page({first: k, after: endCursor}) after a page that has edges.
NextVirtualPage ==
    /\ page.called
    /\ prev = NoPage
    /\ EndCursor(order, page) # <<>>
    /\ page' = PageOf(query, virtual, order, table,
                      Forward(page.pageSize, EndCursor(order, page), <<>>))
    /\ prev' = page
    /\ UNCHANGED <<entry, virtual, order, query, table, probe, codec, iteration>>

NextVirtual == FirstVirtualPage \/ NextVirtualPage \/ Release

SpecVirtual == InitVirtual /\ [][NextVirtual]_vars

(***************************************************************************)
(* escapeColumn on its own, for any identifier of letters, double quotes   *)
(* and dots a caller can name a column with.                               *)
(***************************************************************************)
IdentifierCharacters == {"a", Quote, "."}

Identifiers ==
    UNION {[1..n -> IdentifierCharacters] : n \in 0..MaxIdentifier}

InitEscape ==
    /\ virtual = <<>>
    /\ order = <<>>
    /\ query = EmptyQuery
    /\ table = {}
    /\ page = NoPage
    /\ prev = NoPage
    /\ probe = NoProbe
    /\ codec = NoCodec
    /\ iteration = NoIteration
    /\ construction = NoConstruction
    /\ request = NoRequest
    /\ builders = <<>>
    /\ calls = <<>>
    /\ escaping \in {[NoEscaping EXCEPT !.column = c] : c \in Identifiers}
    /\ loading = NoLoading

\* this.escapeColumn(query, column)
Escape ==
    /\ ~escaping.done
    /\ escaping' = [done |-> TRUE, column |-> escaping.column,
                    arguments |-> EscapeArguments(escaping.column),
                    escaped |-> EscapeColumn(escaping.column)]
    /\ UNCHANGED <<virtual, order, query, table, page, prev, probe, codec,
                   iteration, construction, request, builders, calls, loading>>

\* The expression has been used; the identifier may be escaped again.
Escaped ==
    /\ escaping.done
    /\ escaping' = [NoEscaping EXCEPT !.column = escaping.column]
    /\ UNCHANGED <<virtual, order, query, table, page, prev, probe, codec,
                   iteration, construction, request, builders, calls, loading>>

NextEscape == Escape \/ Escaped

SpecEscape == InitEscape /\ [][NextEscape]_vars

(***************************************************************************)
(* The eager loading of findWithPagination.  The options are the set of    *)
(* keys they hold and the value of loadEagerRelations, "absent" when the   *)
(* key is not there.  The entity has one eager relation, owner.            *)
(***************************************************************************)
EagerRelations == {<<"o", "w", "n", "e", "r">>}

OptionKeys == {"select", "where", "join", "order", "pagination", "virtual"}

LoadEagerValues == {"absent", "true", "false"}

AllFindOptions ==
    [keys : SUBSET OptionKeys, loadEagerRelations : LoadEagerValues]

\* const { order = {}, pagination = {}, virtual, ...baseOptions } = options
BaseOptions(options) ==
    [options EXCEPT !.keys = @ \ {"order", "pagination", "virtual"}]

\* Find.isFindManyOptions(baseOptions): the object holds a key of
\* FindManyOptions with a value of its type (loadEagerRelations: a boolean).
IsFindManyOptions(baseOptions) ==
    \/ baseOptions.keys \cap {"select", "where", "join", "order"} # {}
    \/ baseOptions.loadEagerRelations \in {"true", "false"}

\* const loadEagerByDefault = !Find.isFindManyOptions(baseOptions)
LoadEagerByDefault(options) == ~IsFindManyOptions(BaseOptions(options))

\* Mutant of LoadEagerByFindOptions: eager loading has to be asked for.
LoadEagerOnlyWhenTrue(options) == options.loadEagerRelations = "true"

\* const loadEagerByFindOptions = options.loadEagerRelations !== false
LoadEagerByFindOptions(options) == options.loadEagerRelations # "false"

\* Find.joinEagerRelations(query, query.alias, metadata)
JoinEagerRelations(joins) == joins \cup EagerRelations

\* if (loadEagerByDefault || loadEagerByFindOptions) joinEagerRelations(...)
EagerJoined(options, joins) ==
    IF LoadEagerByDefault(options) \/ LoadEagerByFindOptions(options)
    THEN JoinEagerRelations(joins) ELSE joins

\* buildBaseQuery: the joins of options.join ({alias: "f", innerJoin:
\* {o: "f.owner"}}) are applied by the query layer.
BuildBaseQuery(options, joins) ==
    IF "join" \in BaseOptions(options).keys THEN joins \cup {<<"o">>} ELSE joins

\* The joins of the query findWithPagination hands to the paginator.
JoinsOf(options) == BuildBaseQuery(options, EagerJoined(options, {}))

InitEager ==
    /\ virtual = <<>>
    /\ order = <<>>
    /\ query = EmptyQuery
    /\ table = {}
    /\ page = NoPage
    /\ prev = NoPage
    /\ probe = NoProbe
    /\ codec = NoCodec
    /\ iteration = NoIteration
    /\ construction = NoConstruction
    /\ request = NoRequest
    /\ builders = <<>>
    /\ calls = <<>>
    /\ escaping = NoEscaping
    /\ loading \in {[NoLoading EXCEPT !.options = o] : o \in AllFindOptions}

\* findWithPagination(repository, options), up to new Paginator(query, ...)
FindEager ==
    /\ ~loading.made
    /\ loading' = [made |-> TRUE, options |-> loading.options,
                   joins |-> JoinsOf(loading.options)]
    /\ UNCHANGED <<virtual, order, query, table, page, prev, probe, codec,
                   iteration, construction, request, builders, calls, escaping>>

\* The call has returned; the same options may be used again.
FoundEager ==
    /\ loading.made
    /\ loading' = [NoLoading EXCEPT !.options = loading.options]
    /\ UNCHANGED <<virtual, order, query, table, page, prev, probe, codec,
                   iteration, construction, request, builders, calls, escaping>>

NextEager == FindEager \/ FoundEager

SpecEager == InitEager /\ [][NextEager]_vars

(***************************************************************************)
(* Reference notions the properties are stated with.                       *)
(***************************************************************************)
\* The value a row holds for an order column.
RowValue(row, column) == row[ReplaceFirst(column, ".", <<"_">>)]

\* The sort-key tuple of a row under an order.
KeyOf(ord, row) == [i \in 1..Len(ord) |-> RowValue(row, ord[i].column)]

\* x lies strictly after y in a column's own direction.
Beyond(direction, x, y) ==
    IF direction = "ASC" THEN SqlCompare(x, y) = "gt"
    ELSE SqlCompare(x, y) = "lt"

\* Tuple k is strictly after tuple p in the lexicographic order that
\* respects each column's direction.
LexAfter(ord, k, p) ==
    \E i \in 1..Len(ord) :
        /\ Beyond(ord[i].direction, k[i], p[i])
        /\ \A j \in 1..(i - 1) : SqlCompare(k[j], p[j]) = "eq"

LexBefore(ord, k, p) == LexAfter(ord, p, k)

\* Row r sorts strictly after row e in the canonical (forward) order.
RowAfter(ord, r, e) == LexAfter(ord, KeyOf(ord, r), KeyOf(ord, e))

\* The discriminant (the main alias's id) is the last column of the order.
DiscriminantLast(ord) ==
    /\ Len(ord) >= 1
    /\ ord[Len(ord)].column = MainAlias \o <<".">> \o IdProperty

\* The cursor decodes to one non-null value per order column.
IsPosition(ord, cursor) ==
    /\ cursor # <<>>
    /\ DecodeCursor(cursor).ok
    /\ Len(DecodeCursor(cursor).items) = Len(ord)
    /\ \A i \in 1..Len(ord) : DecodeCursor(cursor).items[i].k \in {"num", "str"}

PositionOf(cursor) == DecodeCursor(cursor).items

ForwardPage(p) == p.called /\ p.options.first # <<>> /\ p.options.last = <<>>

BackwardPage(p) == p.called /\ p.options.last # <<>> /\ p.options.first = <<>>

\* The requested page size: first, or last.
Requested(p) ==
    IF p.options.first # <<>> THEN p.options.first[1] ELSE p.options.last[1]

Reverse(seq) == [i \in 1..Len(seq) |-> seq[Len(seq) + 1 - i]]

\* The rows of a set in canonical order.
RECURSIVE Sorted(_, _)
Sorted(ord, rows) ==
    IF rows = {} THEN <<>>
    ELSE LET least == CHOOSE r \in rows : \A o \in rows : ~RowAfter(ord, r, o)
         IN  <<least>> \o Sorted(ord, rows \ {least})

(***************************************************************************)
(* C1: for a canonical order and a decoded position of non-null values,    *)
(* the predicate applyCursor builds for AFTER holds of a row exactly when  *)
(* the row's sort key is strictly after the position in the lexicographic  *)
(* order that respects each column's direction, the predicate for BEFORE   *)
(* exactly when it is strictly before; the row at the position satisfies   *)
(* neither.                                                                *)
(***************************************************************************)
C1_BoundaryIsLexicographic ==
    (probe.applied /\ DiscriminantLast(order) /\ IsPosition(order, probe.cursor))
        => IF probe.isBefore
           THEN probe.holds <=> LexBefore(order, KeyOf(order, probe.row),
                                          PositionOf(probe.cursor))
           ELSE probe.holds <=> LexAfter(order, KeyOf(order, probe.row),
                                         PositionOf(probe.cursor))

\* A three-column order of mixed directions, and a row that ties with the
\* position on the first column, is on the far side of it on the second
\* and on the near side on the id: the predicate holds of it.
C1_Witness ==
    /\ probe.applied
    /\ probe.isBefore
    /\ Len(order) = 3
    /\ order[1].direction = "DESC"
    /\ order[2].direction = "ASC"
    /\ IsPosition(order, probe.cursor)
    /\ SqlCompare(KeyOf(order, probe.row)[1], PositionOf(probe.cursor)[1]) = "eq"
    /\ SqlCompare(KeyOf(order, probe.row)[2], PositionOf(probe.cursor)[2]) = "lt"
    /\ SqlCompare(KeyOf(order, probe.row)[3], PositionOf(probe.cursor)[3]) = "gt"
    /\ probe.holds

\* The rows of the pages of an iteration, in the order received.
RECURSIVE Flatten(_)
Flatten(pages) ==
    IF Len(pages) = 0 THEN <<>> ELSE Head(pages) \o Flatten(Tail(pages))

\* The ids of the rows of a page.
IdsOf(edges) == {IdOf(edges[i]) : i \in 1..Len(edges)}

(***************************************************************************)
(* C2: over an unchanging result set of rows with unique ids and non-null  *)
(* order values, the forward iteration, once hasNextPage is false, has     *)
(* returned every row of the result set exactly once, in canonical order,  *)
(* after at most one page per row.                                         *)
(***************************************************************************)
C2_IterationReturnsEveryRow ==
    (iteration.active /\ iteration.done) =>
        /\ Flatten(iteration.pages) = Sorted(order, table)
        /\ Len(iteration.pages) <= Cardinality(table) + 1

C4_RoundTrip ==
    codec.encoded =>
        /\ codec.decoded.ok
        /\ Len(codec.decoded.items) = Len(order)
        /\ \A i \in 1..Len(order) :
              /\ codec.decoded.items[i] = RowValue(codec.row, order[i].column)
              /\ ParameterValue(codec.bound, ParameterName(FALSE, i - 1))
                    = RowValue(codec.row, order[i].column)

(***************************************************************************)
(* C5: a page never has more edges than the requested page size, and the   *)
(* over-fetched row (the pageSize + 1-th the query returns) is not among   *)
(* the edges.                                                              *)
(***************************************************************************)
C5_EdgesWithinPageSize ==
    page.called =>
        /\ Len(Edges(page)) <= Requested(page)
        /\ Len(page.raw) <= Requested(page) + 1
        /\ Len(page.raw) > Requested(page) =>
              \A i \in 1..Len(Edges(page)) :
                  Edges(page)[i] # page.raw[Requested(page) + 1]

\* A backward page with a cursor whose query returned the extra row.
C5_Witness ==
    /\ BackwardPage(page)
    /\ page.options.before # <<>>
    /\ Len(page.raw) = Requested(page) + 1
    /\ Len(Edges(page)) = Requested(page)

(***************************************************************************)
(* C7: on a forward page hasNextPage says that the query returned more     *)
(* than pageSize rows and hasPreviousPage that an after cursor was         *)
(* supplied; a first page without after holding the whole result set has   *)
(* both flags false.                                                       *)
(***************************************************************************)
C7_ForwardFlags ==
    ForwardPage(page) =>
        /\ page.hasNext <=> Len(page.raw) > Requested(page)
        /\ page.hasPrevious <=> page.options.after # <<>>
        /\ (page.options.after = <<>> /\ page.options.before = <<>>
               /\ Cardinality(table) <= Requested(page))
              => /\ ~page.hasNext
                 /\ ~page.hasPrevious
                 /\ {Edges(page)[i] : i \in 1..Len(Edges(page))} = table

C7_Witness ==
    /\ ForwardPage(page)
    /\ page.options.after = <<>>
    /\ page.options.before = <<>>
    /\ Cardinality(table) = 2
    /\ Requested(page) = 2
    /\ ~page.hasNext
    /\ ~page.hasPrevious

(***************************************************************************)
(* C8: on a backward page hasPreviousPage says that the query returned     *)
(* more than pageSize rows and hasNextPage that a before cursor was        *)
(* supplied; last = 2 over three rows without before gives hasPreviousPage *)
(* true and hasNextPage false.                                             *)
(***************************************************************************)
C8_BackwardFlags ==
    BackwardPage(page) =>
        /\ page.hasPrevious <=> Len(page.raw) > Requested(page)
        /\ page.hasNext <=> page.options.before # <<>>
        /\ (page.options.after = <<>> /\ page.options.before = <<>>
               /\ Cardinality(table) = 3 /\ Requested(page) = 2)
              => page.hasPrevious /\ ~page.hasNext

C8_Witness ==
    /\ BackwardPage(page)
    /\ page.options.after = <<>>
    /\ page.options.before = <<>>
    /\ Cardinality(table) = 3
    /\ Requested(page) = 2
    /\ page.hasPrevious
    /\ ~page.hasNext

(***************************************************************************)
(* C6: on a forward page fetched without a before cursor, hasNextPage is   *)
(* true exactly when the page has edges and some row of the result set     *)
(* sorts after the page's last row in the canonical order.                 *)
(***************************************************************************)
C6_HasNextOnForwardPages ==
    (ForwardPage(page) /\ page.options.before = <<>>) =>
        (page.hasNext <=>
            /\ Len(Edges(page)) >= 1
            /\ \E r \in table : RowAfter(order, r, LastOf(Edges(page))))

\* A forward page after a cursor, with a row of the table left beyond it.
C6_Witness ==
    /\ ForwardPage(page)
    /\ page.options.after # <<>>
    /\ page.options.before = <<>>
    /\ Len(Edges(page)) = 1
    /\ page.hasNext
    /\ \E r \in table : RowAfter(order, r, LastOf(Edges(page)))

\* C6 as stated: on every page with edges, forward or backward, with any
\* cursors, hasNextPage is true exactly when some row of the result set
\* sorts after every row of the page.
C6_HasNextIffRowBeyond ==
    (page.called /\ Len(Edges(page)) >= 1) =>
        (page.hasNext <=>
            \E r \in table : \A i \in 1..Len(Edges(page)) :
                RowAfter(order, r, Edges(page)[i]))

Between(ord, rows, after, before) ==
    {r \in rows : /\ LexAfter(ord, KeyOf(ord, r), PositionOf(after))
                  /\ LexBefore(ord, KeyOf(ord, r), PositionOf(before))}

IntervalCase(p) ==
    /\ p.called
    /\ IsPosition(order, p.options.after)
    /\ IsPosition(order, p.options.before)
    /\ LexAfter(order, PositionOf(p.options.before), PositionOf(p.options.after))
    /\ Cardinality(Between(order, table, p.options.after, p.options.before))
          <= Requested(p)

C11_InvalidOptionsRejected ==
    \A c \in DOMAIN calls :
        (/\ calls[c].pc # "idle"
         /\ (calls[c].options.first = <<>>) = (calls[c].options.last = <<>>))
            => /\ calls[c].pc = "rejected"
               /\ calls[c].fetches = 0

(***************************************************************************)
(* C12: a page() call with an after or before token that does not decode   *)
(* into a sequence of as many scalars as the canonical order has columns   *)
(* is rejected instead of returning a page.                                *)
(***************************************************************************)
Malformed(ord, cursor) ==
    /\ cursor # <<>>
    /\ \/ ~DecodeCursor(cursor).ok
       \/ Len(DecodeCursor(cursor).items) # Len(ord)

C12_MalformedCursorRejected ==
    \A c \in DOMAIN calls :
        (/\ calls[c].pc # "idle"
         /\ \/ Malformed(order, calls[c].options.after)
            \/ Malformed(order, calls[c].options.before))
            => /\ calls[c].pc = "rejected"
               /\ calls[c].fetches = 0

(***************************************************************************)
(* C13: for every order handed to the constructor the canonical order is   *)
(* non-empty and its final entry, the one applyWhere treats as the         *)
(* discriminant, is the id column of the main alias.                       *)
(***************************************************************************)
C13_DiscriminantIsLast ==
    construction.built =>
        /\ Len(order) >= 1
        /\ IsDiscriminant(order, Len(order) - 1)
        /\ order[Len(order)].column = MainAlias \o <<".">> \o IdProperty

(***************************************************************************)
(* C14: the canonical order holds every entry of the order handed to the   *)
(* constructor, at the caller's position and with the caller's direction,  *)
(* the id included; the id is added, ascending and last, only when the     *)
(* caller did not order by it.                                             *)
(***************************************************************************)
C14_CallerEntriesKept ==
    construction.built =>
        /\ \A i \in 1..Len(construction.given) :
              /\ i <= Len(order)
              /\ order[i].column = BuiltKey(virtual, construction.given[i].column)
              /\ order[i].direction = construction.given[i].direction
        /\ IF HasKey(construction.given, IdProperty)
           THEN Len(order) = Len(construction.given)
           ELSE /\ Len(order) = Len(construction.given) + 1
                /\ order[Len(order)] =
                      [column |-> MainAlias \o <<".">> \o IdProperty,
                       direction |-> "ASC"]

(***************************************************************************)
(* C15: however page() and count() calls on one paginator interleave, the  *)
(* paginator's base query and the builder the constructor was given stay   *)
(* as they were at construction, every call works on a builder of its own, *)
(* and every page returned is the page the call produces when it runs      *)
(* alone.                                                                  *)
(***************************************************************************)
C15_CallsWorkOnClones ==
    /\ builders.store[builders.base] = <<query>>
    /\ builders.store[builders.handed] = <<builders.given>>
    /\ builders.base # builders.handed
    /\ \A c \in DOMAIN calls :
          /\ calls[c].ref # 0 =>
                /\ calls[c].ref \notin {builders.base, builders.handed}
                /\ \A d \in DOMAIN calls \ {c} : calls[d].ref # calls[c].ref
          /\ calls[c].pc = "returned" =>
                calls[c].result =
                    PageOf(query, virtual, order, table, calls[c].options)

\* A backward page between two cursors has been returned to one caller
\* while the forward page of the other caller awaits the database, over a
\* filtered base query.
C15_Witness ==
    /\ builders.given = FilteredQuery
    /\ calls[1].pc = "returned"
    /\ calls[1].options.last # <<>>
    /\ calls[1].options.after # <<>>
    /\ calls[1].options.before # <<>>
    /\ calls[2].pc = "awaiting"
    /\ calls[2].options.first # <<>>
    /\ calls[2].options.after = <<>>

(***************************************************************************)
(* C16: every page() call executes exactly one row-fetching query,         *)
(* whatever its direction and cursors; when that query fails the call      *)
(* rejects with the failure of the query layer and issues no other query.  *)
(***************************************************************************)
C16_OneFetchPerCall ==
    \A c \in DOMAIN calls :
        /\ calls[c].pc # "idle" => calls[c].fetches = 1
        /\ calls[c].pc = "rejected" =>
              /\ calls[c].failure \in QueryErrors
              /\ calls[c].error = calls[c].failure
        /\ calls[c].failure # "" => calls[c].pc = "rejected"

\* A backward call with both cursors whose query failed.
C16_Witness ==
    \E c \in DOMAIN calls :
        /\ calls[c].pc = "rejected"
        /\ calls[c].options.last # <<>>
        /\ calls[c].options.after # <<>>
        /\ calls[c].options.before # <<>>
        /\ calls[c].fetches = 1
        /\ calls[c].error = "ConnectionLost"

(***************************************************************************)
(* C17: a count query runs only when totalCount() is invoked, once per     *)
(* invocation, never for page() itself; it counts the rows that match the  *)
(* base filter, whatever the window of the page it is read from and        *)
(* whatever other calls are in progress.                                   *)
(***************************************************************************)
BaseRows == {r \in table : Matches(PreparedWheres(builders.given), r)}

C17_CountOnlyOnDemand ==
    \A c \in DOMAIN calls :
        /\ calls[c].counts = calls[c].asked
        /\ calls[c].pc # "returned" => calls[c].counts = 0
        /\ calls[c].total # <<>> => calls[c].total[1] = Cardinality(BaseRows)

\* totalCount() read from a page that holds no row, after a cursor, while
\* the other caller awaits the database: it counts both rows.
C17_Witness ==
    \E c \in DOMAIN calls :
        /\ calls[c].pc = "returned"
        /\ calls[c].options.after # <<>>
        /\ Len(calls[c].result.raw) = 0
        /\ calls[c].total = <<2>>
        /\ \E d \in DOMAIN calls : calls[d].pc = "awaiting"

(***************************************************************************)
(* C18: findWithPagination without pagination, or with a pagination that   *)
(* sets neither first nor last, asks the paginator for first = 100: the    *)
(* page is a forward page of at most the first 100 rows in canonical       *)
(* order, and hasPreviousPage is false when no after is given.             *)
(***************************************************************************)
C18_DefaultsToFirstHundred ==
    (/\ request.made
     /\ PaginationOf(request.pagination).first = <<>>
     /\ PaginationOf(request.pagination).last = <<>>)
        => /\ page.options = Forward(DefaultFirst,
                                     PaginationOf(request.pagination).after,
                                     PaginationOf(request.pagination).before)
           /\ Len(Edges(page)) <= DefaultFirst
           /\ page.options.after = <<>> => ~page.hasPrevious
           /\ (page.options.after = <<>> /\ page.options.before = <<>>) =>
                 /\ Edges(page) = Take(Sorted(order, table), DefaultFirst)
                 /\ page.hasNext <=> Cardinality(table) > DefaultFirst

\* No pagination at all over 101 rows: the page holds 100 of them.
C18_Witness ==
    /\ request.made
    /\ request.pagination = <<>>
    /\ Cardinality(table) = DefaultFirst + 1
    /\ Len(Edges(page)) = DefaultFirst
    /\ page.hasNext
    /\ ~page.hasPrevious

(***************************************************************************)
(* C19: findWithPagination with both first and last provided hands the     *)
(* paginator last alone (with after and before): the page is a backward    *)
(* page of page size last, whatever the value of last.                     *)
(***************************************************************************)
C19_LastDiscardsFirst ==
    (/\ request.made
     /\ PaginationOf(request.pagination).first # <<>>
     /\ PaginationOf(request.pagination).last # <<>>)
        => /\ page.options = [PaginationOf(request.pagination)
                                 EXCEPT !.first = <<>>]
           /\ page.pageSize = PaginationOf(request.pagination).last[1]

(***************************************************************************)
(* C20: a page fetched with last = k and before = c, c a position of       *)
(* non-null values, holds the up to k rows strictly before c in the        *)
(* canonical order that are nearest to c, nearest first; without before it *)
(* holds the last k rows of the result set in reverse canonical order.     *)
(* The boundary follows the original column directions although the ORDER  *)
(* BY of the query has every direction inverted.                           *)
(***************************************************************************)
RowsBefore(ord, rows, before) ==
    IF before = <<>> THEN rows
    ELSE {r \in rows : LexBefore(ord, KeyOf(ord, r), PositionOf(before))}

C21_FirstPageIsSortedPrefix ==
    (/\ ForwardPage(page)
     /\ page.options.after = <<>>
     /\ page.options.before = <<>>)
        => /\ Edges(page) = Take(Sorted(order, table), Requested(page))
           /\ Len(Edges(page)) =
                 (IF Requested(page) < Cardinality(table)
                  THEN Requested(page) ELSE Cardinality(table))
           /\ Len(query.orderBys) = Len(order)
           /\ \A i \in 1..Len(order) :
                 /\ query.orderBys[i].column = EscapeColumn(order[i].column)
                 /\ query.orderBys[i].direction = order[i].direction

\* The order {a: DESC, b: DESC} over three rows whose a is 1, 2, 1: the
\* page of two holds row 2 and then, of the two rows that tie on a, the
\* one with the larger b.
C21_Witness ==
    /\ ForwardPage(page)
    /\ page.options.after = <<>>
    /\ page.options.before = <<>>
    /\ Len(order) = 3
    /\ order[1] = Entry(MainAlias \o <<".", "a">>, "DESC")
    /\ order[2] = Entry(MainAlias \o <<".", "b">>, "DESC")
    /\ table = {Row(1, 1, <<"a">>), Row(2, 2, <<"a">>), Row(3, 1, <<"|", Quote>>)}
    /\ Requested(page) = 2
    /\ Edges(page) = <<Row(2, 2, <<"a">>), Row(3, 1, <<"|", Quote>>)>>
    /\ page.hasNext

(***************************************************************************)
(* C22: startCursor is the cursor of the first edge and endCursor the      *)
(* cursor of the last edge of the page as returned, never the cursor of    *)
(* the over-fetched row; both are undefined exactly when the page has no   *)
(* edge.                                                                   *)
(***************************************************************************)
C22_CursorsOfReturnedEdges ==
    page.called =>
        /\ (StartCursor(order, page) = <<>>) <=> (Len(Edges(page)) = 0)
        /\ (EndCursor(order, page) = <<>>) <=> (Len(Edges(page)) = 0)
        /\ Len(Edges(page)) > 0 =>
              /\ StartCursor(order, page) = EncodeCursor(order, page.raw[1])
              /\ EndCursor(order, page) =
                    EncodeCursor(order, page.raw[Len(Edges(page))])
              /\ Len(page.raw) > Requested(page) =>
                    EndCursor(order, page) #
                        EncodeCursor(order, page.raw[Requested(page) + 1])

\* A page of two edges whose query returned a third row.
C22_Witness ==
    /\ page.called
    /\ Requested(page) = 2
    /\ Len(page.raw) = 3
    /\ Len(Edges(page)) = 2
    /\ StartCursor(order, page) # EndCursor(order, page)
    /\ EndCursor(order, page) = EncodeCursor(order, page.raw[2])

(***************************************************************************)
(* C23: a bare ordering key that is neither virtual nor a property of the  *)
(* main entity does not stop the constructor: the canonical order holds    *)
(* it at its position as the literal reference <mainAlias>.<key>, and the  *)
(* ORDER BY of the base query holds that reference at the same position;   *)
(* a key that is a property is held as <mainAlias>.<databaseName>.         *)
(***************************************************************************)
Qualified(name) == MainAlias \o <<".">> \o name

IsBare(virt, property) ==
    ~Includes(property, ".") /\ ~IsVirtual(virt, property)

IsProperty(property) ==
    property \in EntityColumns \cup DOMAIN RenamedColumns

ColumnNamed(property) ==
    IF property \in DOMAIN RenamedColumns THEN RenamedColumns[property]
    ELSE property

C23_UnresolvedKeyKeptAsLiteral ==
    construction.built =>
        /\ Len(order) = Len(SetKey(construction.given, IdProperty, "ASC"))
        /\ Len(query.orderBys) = Len(order)
        /\ \A i \in 1..Len(order) :
              IsBare(virtual, SetKey(construction.given, IdProperty, "ASC")[i].column)
                => /\ order[i].column =
                         Qualified(ColumnNamed(
                             SetKey(construction.given, IdProperty, "ASC")[i].column))
                   /\ query.orderBys[i].column =
                         DriverEscape(MainAlias) \o <<".">> \o
                         DriverEscape(ColumnNamed(
                             SetKey(construction.given, IdProperty, "ASC")[i].column))

\* The order {v: DESC, n: ASC} where v is no property and not virtual:
\* the canonical order is f.v DESC, f.n_x ASC, f.id ASC.
C23_Witness ==
    /\ construction.built
    /\ virtual = <<>>
    /\ construction.given = <<Entry(<<"v">>, "DESC"), Entry(<<"n">>, "ASC")>>
    /\ ~IsProperty(<<"v">>)
    /\ order = <<Entry(<<"f", ".", "v">>, "DESC"),
                 Entry(<<"f", ".", "n", "_", "x">>, "ASC"),
                 Entry(<<"f", ".", "i", "d">>, "ASC")>>
    /\ query.orderBys[1].column = <<Quote, "f", Quote, ".", Quote, "v", Quote>>

(***************************************************************************)
(* C26: escapeColumn removes every double quote of the identifier before   *)
(* it splits it on "." and hands the parts to the driver's escape: no      *)
(* double quote of the identifier reaches the driver.                      *)
(***************************************************************************)
C26_NoQuoteReachesDriver ==
    escaping.done =>
        \A i \in 1..Len(escaping.arguments) :
            ~Includes(escaping.arguments[i], Quote)

(***************************************************************************)
(* C24: findWithPagination joins the eager relations of the entity unless  *)
(* the options hold loadEagerRelations: false: the query has the eager     *)
(* joins when loadEagerRelations is absent or true, whatever else the      *)
(* options hold, and none of them when it is false.                        *)
(***************************************************************************)
C24_EagerUnlessFalse ==
    loading.made =>
        IF loading.options.loadEagerRelations = "false"
        THEN loading.joins \cap EagerRelations = {}
        ELSE EagerRelations \subseteq loading.joins

\* loadEagerRelations: false next to a join of the caller's: the query
\* holds the caller's join and no eager one.
C24_Witness ==
    /\ loading.made
    /\ loading.options.loadEagerRelations = "false"
    /\ "join" \in loading.options.keys
    /\ "pagination" \in loading.options.keys
    /\ loading.joins = {<<"o">>}

(***************************************************************************)
(* C27: for every row, rows that lack order columns included, the cursor   *)
(* of encodeCursor decodes to as many values as the canonical order has    *)
(* columns; the i-th is the row's value for the i-th order column, and it  *)
(* is null exactly when the row holds no value for that column.            *)
(***************************************************************************)
CursorKey(ord, i) == ReplaceFirst(ord[i].column, ".", <<"_">>)

Held(row, key) ==
    IF key \in DOMAIN row THEN row[key] ELSE Null

C27_CursorHoldsRowValues ==
    codec.encoded =>
        /\ codec.decoded.ok
        /\ Len(codec.decoded.items) = Len(order)
        /\ \A i \in 1..Len(order) :
              codec.decoded.items[i] = Held(codec.row, CursorKey(order, i))

(***************************************************************************)
(* C28: encodeCursor encodes an order-column value of 0, the empty string  *)
(* or false as it encodes a missing column, as null: the cursor of a row   *)
(* with such a value is the cursor of the same row without the column.     *)
(***************************************************************************)
Without(row, key) == [k \in DOMAIN row \ {key} |-> row[k]]

FallbackOf(virt) == CHOOSE f \in Fallbacks : virt = (VirtualName :> CoalesceOf(f))

\* The row as the query returns it: with the coalesced value under v.
Viewed(virt, row) ==
    (VirtualName :> Coalesce(row[AKey], Num(FallbackOf(virt)))) @@ row

View(virt, rows) == {Viewed(virt, r) : r \in rows}

C25_VirtualPagesAdjacent ==
    (page.called /\ prev.called) =>
        /\ query.orderBys[1].column = virtual[VirtualName]
        /\ PageQuery(query, virtual, order, page.options).wheres[1].left.expression
              = virtual[VirtualName]
        /\ \A i \in 1..Len(Edges(prev)) :
              Edges(prev)[i] \in View(virtual, table)
        /\ DecodeCursor(EndCursor(order, prev)).items[1]
              = LastOf(Edges(prev))[VirtualName]
        /\ Edges(prev) \o Edges(page) =
              Take(Sorted(order, View(virtual, table)), 2 * Requested(prev))
====
